---- MODULE Spec2Model ----
(***************************************************************************)
(* Model of the Brevo -> NocoDB campaign synchronisation                   *)
(* (src/brevo-nocodb-sync.py) and of the status mapper of the CSV exporter *)
(* (src/brevo-campagne.py).                                                *)
(*                                                                         *)
(* One run of sync_brevo_to_nocodb is a sequence of steps, one per         *)
(* interaction with a remote service: fetch the source campaigns, verify   *)
(* the destination table, list the existing records, plan, transform, then *)
(* one step per planned insert and per planned update.  The two remote     *)
(* services are the environment: their answers are chosen                  *)
(* nondeterministically.  A behaviour is a run of the script and the run    *)
(* after it, on the same destination; what earlier runs left behind is the *)
(* table the behaviour starts with.                                        *)
(***************************************************************************)
EXTENDS Integers, Sequences, FiniteSets, TLC

(* ------------------------------ bounds -------------------------------- *)

\* Source campaign identifiers are 1..NumIds.
NumIds == 2

\* Longest list of campaigns the source returns.
MaxCampaigns == 2

\* Most rows the destination table holds before the first run.
MaxRows == 1

\* Longest list of statuses handed to the two status mappers.
MaxMapLen == 2

\* Largest delivered, unique-view and unique-click count of a campaign.
MaxCount == 2

(* ---------------------------- vocabulary ------------------------------ *)

Ids == 1..NumIds

\* Raw lifecycle statuses the source reports in the sync model.
SrcStatuses == {"sent", "scheduled"}

\* Shapes of campaign['statistics']: a dict, or the key present with null.
StatShapes == {"dict", "null"}

Campaigns == [id : Ids, status : SrcStatuses, statistics : StatShapes]

\* HTTP outcomes of one request; "neterr" is a requests RequestException.
Statuses == {"200", "401", "403", "500", "neterr"}

\* CONFIG['nocodb']['api_key']
ApiKey == "KEY"

\* f"{CONFIG['nocodb']['api_url']}/tables/{table_id}/records", as URL tokens
RecordsUrl == <<"records">>

(* ------------------------------ helpers ------------------------------- *)

Range(s) == {s[n] : n \in DOMAIN s}

Max(S) == CHOOSE x \in S : \A y \in S : y <= x

Min(S) == CHOOSE x \in S : \A y \in S : x <= y

\* Python str() of an integer identifier.
PyStr(n) == ToString(n)

\* requests' view of a URL: the path is what precedes the first "?", the
\* query string is everything after it.
HasQuery(url) == \E n \in DOMAIN url : url[n] = "?"

FirstQ(url) == CHOOSE n \in DOMAIN url : url[n] = "?" /\ \A m \in 1..(n-1) : url[m] /= "?"

PathOf(url) == IF HasQuery(url) THEN SubSeq(url, 1, FirstQ(url) - 1) ELSE url

QueryOf(url) == IF HasQuery(url) THEN SubSeq(url, FirstQ(url) + 1, Len(url)) ELSE <<>>

\* Value of the query parameter `name`: the tokens after "name=" up to the
\* next "&" (the query is split on "&" only, so a second "?" or a "/" stays
\* inside the value).
ParamEnd(q, from) ==
    IF \E n \in from..Len(q) : q[n] = "&"
    THEN (CHOOSE n \in from..Len(q) : q[n] = "&" /\ \A m \in from..(n-1) : q[m] /= "&") - 1
    ELSE Len(q)

ParamStarts(q, name) ==
    {n \in DOMAIN q : /\ q[n] = name
                      /\ n + 1 <= Len(q) /\ q[n+1] = "="
                      /\ (n = 1 \/ q[n-1] = "&")}

HasParam(url, name) == ParamStarts(QueryOf(url), name) /= {}

ParamValue(url, name) ==
    LET q == QueryOf(url)
        n == CHOOSE m \in ParamStarts(q, name) : TRUE
    IN  SubSeq(q, n + 2, ParamEnd(q, n + 2))

(* -------------------------- status mappers ---------------------------- *)

\* status_map of the sync script
SyncStatusMap ==
    [s \in {"draft", "scheduled", "queued", "sending", "sent", "paused", "failed"} |->
        CASE s = "draft" -> "Draft"
          [] s = "scheduled" -> "Scheduled"
          [] s = "queued" -> "Sending"
          [] s = "sending" -> "Sending"
          [] s = "sent" -> "Sent"
          [] s = "paused" -> "Paused"
          [] s = "failed" -> "Failed"]

\* status_map of the CSV exporter
CsvStatusMap ==
    [s \in {"draft", "scheduled", "queued", "sending", "sent", "paused", "failed",
            "inProcess", "archive", "suspended"} |->
        CASE s = "draft" -> "Draft"
          [] s = "scheduled" -> "Scheduled"
          [] s = "queued" -> "Sending"
          [] s = "sending" -> "Sending"
          [] s = "sent" -> "Sent"
          [] s = "paused" -> "Paused"
          [] s = "failed" -> "Failed"
          [] s = "inProcess" -> "Sending"
          [] s = "archive" -> "Archived"
          [] s = "suspended" -> "Suspended"]

\* dict.get(key, default)
DictGet(d, key, default) == IF key \in DOMAIN d THEN d[key] ELSE default

\* map_brevo_status of src/brevo-nocodb-sync.py
map_brevo_status(status) == DictGet(SyncStatusMap, status, status)

\* map_brevo_status of src/brevo-campagne.py
csv_map_brevo_status(status) == DictGet(CsvStatusMap, status, status)

(* ------------------------- destination table -------------------------- *)

\* The label stored in the rows that exist before the first run.  The script
\* never reads the stato of a stored row, so one label stands for all.
StoredLabels == {"Scheduled"}

\* Single page fetched by the listing: f"{self.table_url}?limit=1000"
PageLimit == 1000

\* Keys of the payload built by transform_campaign_data.
FullFields ==
    {"id_campagna", "nome_campagna", "data_creazione", "data_invio", "data_fine",
     "stato", "num_contatti", "tasso_apertura_pct", "tasso_clic_pct",
     "num_conversioni", "budget", "roi_pct", "note", "sender", "url_campagna"}

\* Keys of simplified_record in insert_records.
ReducedFields ==
    {"id_campagna", "nome_campagna", "data_creazione", "data_invio", "stato",
     "num_contatti"}

\* Tables of n rows; NocoDB numbers the rows 1, 2, ... in creation order.
TablesOfLen(n) ==
    {t \in [1..n -> [Id : 1..n, id_campagna : {PyStr(x) : x \in Ids}, stato : StoredLabels]] :
        \A m \in 1..n : t[m].Id = m}

Tables == UNION {TablesOfLen(n) : n \in 0..MaxRows}

\* Source lists: campaign identifiers are unique within one listing, and the
\* source API lists the campaigns by creation, oldest or newest first.
SourcesOfLen(n) ==
    {s \in [1..n -> Campaigns] :
        \/ \A a, b \in 1..n : a < b => s[a].id < s[b].id
        \/ \A a, b \in 1..n : a < b => s[a].id > s[b].id}

Sources == UNION {SourcesOfLen(n) : n \in 0..MaxCampaigns}

\* The mixed-state scenario: the destination holds campaign 1 as Scheduled
\* and campaign 2 as Sent; the source now reports both as sent and adds a
\* third campaign.
MixedDb ==
    << [Id |-> 1, id_campagna |-> "1", stato |-> "Scheduled"],
       [Id |-> 2, id_campagna |-> "2", stato |-> "Sent"] >>

MixedSources ==
    { << [id |-> 1, status |-> "sent", statistics |-> "dict"],
         [id |-> 2, status |-> "sent", statistics |-> "dict"],
         [id |-> 3, status |-> st, statistics |-> "dict"] >> : st \in SrcStatuses }

\* The (source list, destination table) pairs a behaviour starts from.
Inputs == (Sources \X Tables) \cup (MixedSources \X {MixedDb})

(* ------------------------- the sync, pure parts ----------------------- *)

\* The rows the listing returns: the first page only.
ListedRows(table) ==
    SubSeq(table, 1, IF Len(table) <= PageLimit THEN Len(table) ELSE PageLimit)

\* An index that keeps the first record of each key and ignores the rest.
IndexKeepFirst(list) ==
    [key \in {list[n].id_campagna : n \in DOMAIN list} |->
        list[Min({n \in DOMAIN list : list[n].id_campagna = key})]]

\* get_existing_campaigns_dict, the comprehension
\* {str(record.get('id_campagna')): record for record in data.get('list', [])}:
\* a later record with the same key overwrites an earlier one.
IndexByCampaign(list) ==
    [key \in {list[n].id_campagna : n \in DOMAIN list} |->
        list[Max({n \in DOMAIN list : list[n].id_campagna = key})]]

\* The {} returned when the listing fails.
EmptyDict == [key \in {} |-> 0]

\* campaign_id = str(campaign.get('id'))
CampaignKey(campaign) == PyStr(campaign.id)

\* A classifier that tests the normalized label instead of the raw status.
ClassifyOnLabel(campaign, existing_campaigns) ==
    IF CampaignKey(campaign) \notin DOMAIN existing_campaigns THEN "new"
    ELSE IF map_brevo_status(campaign.status) /= "sent" THEN "update"
    ELSE "skip"

\* A classifier that skips on the status stored in the destination.
ClassifyOnStored(campaign, existing_campaigns) ==
    IF CampaignKey(campaign) \notin DOMAIN existing_campaigns THEN "new"
    ELSE IF existing_campaigns[CampaignKey(campaign)].stato /= "Sent" THEN "update"
    ELSE "skip"

\* The if/elif of the planning loop.
Classify(campaign, existing_campaigns) ==
    IF CampaignKey(campaign) \notin DOMAIN existing_campaigns THEN "new"
    ELSE IF campaign.status /= "sent" THEN "update"
    ELSE "skip"

\* The planning loop, new_campaigns.append(campaign)
RECURSIVE PlanNew(_, _)
PlanNew(all_campaigns, existing_campaigns) ==
    IF all_campaigns = <<>> THEN <<>>
    ELSE LET campaign == Head(all_campaigns)
             rest == PlanNew(Tail(all_campaigns), existing_campaigns)
         IN  IF Classify(campaign, existing_campaigns) = "new"
             THEN <<campaign>> \o rest ELSE rest

\* The planning loop, campaigns_to_update.append((campaign_id, campaign))
RECURSIVE PlanUpdate(_, _)
PlanUpdate(all_campaigns, existing_campaigns) ==
    IF all_campaigns = <<>> THEN <<>>
    ELSE LET campaign == Head(all_campaigns)
             rest == PlanUpdate(Tail(all_campaigns), existing_campaigns)
         IN  IF Classify(campaign, existing_campaigns) = "update"
             THEN << <<CampaignKey(campaign), campaign>> >> \o rest ELSE rest

\* The early return left out.
NeverNothingToDo(new, upd) == FALSE

\* if not new_campaigns and not campaigns_to_update
NothingToDo(new, upd) == new = <<>> /\ upd = <<>>

\* stats_root.get('globalStats', {}) raises AttributeError when
\* campaign['statistics'] is null: campaign.get('statistics', {}) is then None.
TransformRaises(campaign) == campaign.statistics = "null"

\* A transform that leaves id_campagna empty.
transform_without_id(campaign) ==
    [id_campagna |-> "",
     stato |-> map_brevo_status(campaign.status),
     fields |-> FullFields]

\* transform_campaign_data: the payload, for a campaign it does not raise on.
transform_campaign_data(campaign) ==
    [id_campagna |-> PyStr(campaign.id),
     stato |-> map_brevo_status(campaign.status),
     fields |-> FullFields]

\* simplified_record of insert_records
simplified_record(record) ==
    [id_campagna |-> record.id_campagna,
     stato |-> record.stato,
     fields |-> ReducedFields]

\* new_records = [transform_campaign_data(campaign) for campaign in new_campaigns]
NewRecords(new) == [n \in DOMAIN new |-> transform_campaign_data(new[n])]

\* updates = [(existing_campaigns[campaign_id]['Id'], transform_campaign_data(campaign)) ...]
Updates(upd, existing_campaigns) ==
    [n \in DOMAIN upd |->
        <<existing_campaigns[upd[n][1]].Id, transform_campaign_data(upd[n][2])>>]

\* An apply phase that patches before it posts.
UpdatesFirst(new_records, upds) ==
    [n \in DOMAIN upds |-> [op |-> "update", record_id |-> upds[n][1], record |-> upds[n][2]]]
    \o [n \in DOMAIN new_records |-> [op |-> "insert", record_id |-> 0, record |-> new_records[n]]]

\* sync_records: the writes in the order the two loops issue them.
ApplySchedule(new_records, upds) ==
    [n \in DOMAIN new_records |-> [op |-> "insert", record_id |-> 0, record |-> new_records[n]]]
    \o [n \in DOMAIN upds |-> [op |-> "update", record_id |-> upds[n][1], record |-> upds[n][2]]]

\* response.status_code in [200, 201]
IsSuccess(status) == status \in {"200", "201"}

\* A retry on every failed insert.
RetryOnAnyFailure(status) == ~IsSuccess(status) /\ status /= "neterr"

\* elif response.status_code == 403
ShouldRetry(status) == status = "403"

\* A verification that lets the run go on whatever the answers were.
VerifyAlwaysTrue(header_status, query_status) == TRUE

\* verify_table's return value, from the answer to the header request and,
\* after a 401, the answer to the query-parameter request.
VerifyResult(header_status, query_status) ==
    \/ header_status = "200"
    \/ header_status = "401" /\ query_status = "200"

\* Aborting the batch at the first failed write.
AbortOnWriteFailure == "abort"

\* What the except clauses and the else branches of the two write loops do
\* after a failed write: print, then go on with the next record.
OnWriteFailure == "continue"

\* Answers of the source API to GET /emailCampaigns.
BrevoStatuses == {"200", "500", "neterr"}

\* response.raise_for_status() of get_email_campaigns, or the request itself, raises.
FetchRaises(status) == status /= "200"

\* url_with_token = f"{self.table_url}?nc={self.api_key}"
UrlWithToken(table_url_) == table_url_ \o <<"?", "nc", "=", ApiKey>>

\* url = f"{self.table_url}?limit=1000"
ListUrl(table_url_) == table_url_ \o <<"?", "limit", "=", "1000">>

\* url = f"{self.table_url}/{record_id}"
UpdateUrl(table_url_, record_id) == table_url_ \o <<"/", PyStr(record_id)>>

(* ------------------ the transform, field by field --------------------- *)

\* A campaign as the transform reads it.  A key of a dict is "missing" (the
\* key is absent), "null" (the key is there with the value None) or has a
\* value; statistics and globalStats are "dict" when they hold a dict.
KeyShapes == {"missing", "null", "dict"}

\* The values of the keys email, name and senderName of a sender object:
\* absent, the empty string, or a text.
SenderTexts(text) == {"missing", "", text}

\* campaign['sender']: absent, None, a plain string, or an object with the
\* three keys and possibly a key the transform does not know (other).
SenderFields ==
    [shape : {"missing", "null"}, text : {""}, email : {"missing"}, name : {"missing"},
     senderName : {"missing"}, other : {FALSE}]
    \cup
    [shape : {"string"}, text : {"", "C"}, email : {"missing"}, name : {"missing"},
     senderName : {"missing"}, other : {FALSE}]
    \cup
    [shape : {"dict"}, text : {""}, email : SenderTexts("a@b.com"), name : SenderTexts("A"),
     senderName : SenderTexts("S"), other : BOOLEAN]

TransformInputs ==
    [statistics : KeyShapes, globalStats : KeyShapes, delivered : 0..MaxCount,
     uniqueViews : 0..MaxCount, uniqueClicks : 0..MaxCount, sender : SenderFields]

\* global_stats = stats_root.get('globalStats', {}) or {}: whether the
\* counts are read from a globalStats dict or from the {} that stands in.
HasGlobalStats(campaign) == campaign.statistics = "dict" /\ campaign.globalStats = "dict"

\* int(global_stats.get(key, 0) or 0)
StatCount(campaign, key) == IF HasGlobalStats(campaign) THEN campaign[key] ELSE 0

\* round((count / base) * 100, 2) if delivered > 0 else 0, in hundredths of
\* a percent (no count within the bounds falls on a rounding tie).
RatePct(count, delivered) ==
    IF delivered > 0 THEN (2 * 10000 * count + delivered) \div (2 * delivered) ELSE 0

\* Python truth value of the sender field: None, '' and {} are falsy.
SenderTruthy(sender_field) ==
    CASE sender_field.shape \in {"missing", "null"} -> FALSE
      [] sender_field.shape = "string" -> sender_field.text /= ""
      [] sender_field.shape = "dict" ->
            \/ sender_field.email /= "missing"
            \/ sender_field.name /= "missing"
            \/ sender_field.senderName /= "missing"
            \/ sender_field.other

\* dict.get(key) is truthy: the key is there with a non-empty text.
TextTruthy(text) == text \notin {"missing", ""}

\* str(sender_field) of a sender object, as tokens: the keys it holds with
\* their values.
RenderKey(key, text) == IF text = "missing" THEN <<>> ELSE <<key, ":", text>>

SenderRendering(sender_field) ==
    <<"{">> \o RenderKey("email", sender_field.email)
           \o RenderKey("name", sender_field.name)
           \o RenderKey("senderName", sender_field.senderName)
           \o (IF sender_field.other THEN <<"other", ":", "x">> ELSE <<>>)
           \o <<"}">>

SenderNull == [kind |-> "null", value |-> <<>>]

SenderText(text) == [kind |-> "text", value |-> <<text>>]

\* A truth test that takes any object, even the empty one, as present.
SenderPresent(sender_field) ==
    \/ sender_field.shape = "dict"
    \/ sender_field.shape = "string" /\ sender_field.text /= ""

\* if sender_field:
SenderGuard(sender_field) == SenderTruthy(sender_field)

\* sender_field.get('email') or sender_field.get('name')
\*     or sender_field.get('senderName') or str(sender_field)
SenderOfDict(sender_field) ==
    IF TextTruthy(sender_field.email) THEN SenderText(sender_field.email)
    ELSE IF TextTruthy(sender_field.name) THEN SenderText(sender_field.name)
    ELSE IF TextTruthy(sender_field.senderName) THEN SenderText(sender_field.senderName)
    ELSE [kind |-> "rendering", value |-> SenderRendering(sender_field)]

\* The sender of the payload: lines 276-285 of the transform.
ExtractSender(sender_field) ==
    IF SenderGuard(sender_field)
    THEN IF sender_field.shape = "dict"
         THEN SenderOfDict(sender_field)
         ELSE SenderText(sender_field.text)
    ELSE SenderNull

\* The result of one call of the transform: whether it raised, and the
\* statistics and sender fields of the payload when it did not.
NoResult ==
    [done |-> FALSE, raised |-> FALSE, num_contatti |-> 0, tasso_apertura_pct |-> 0,
     tasso_clic_pct |-> 0, sender |-> SenderNull]

TransformResult(campaign) ==
    IF TransformRaises(campaign)
    THEN [NoResult EXCEPT !.done = TRUE, !.raised = TRUE]
    ELSE LET delivered == StatCount(campaign, "delivered")
         IN  [done |-> TRUE,
              raised |-> FALSE,
              num_contatti |-> delivered,
              tasso_apertura_pct |-> RatePct(StatCount(campaign, "uniqueViews"), delivered),
              tasso_clic_pct |-> RatePct(StatCount(campaign, "uniqueClicks"), delivered),
              sender |-> ExtractSender(campaign.sender)]

\* The campaign of a behaviour that calls the transform on no campaign.
NoCampaign ==
    [statistics |-> "missing", globalStats |-> "missing", delivered |-> 0,
     uniqueViews |-> 0, uniqueClicks |-> 0,
     sender |-> [shape |-> "missing", text |-> "", email |-> "missing",
                 name |-> "missing", senderName |-> "missing", other |-> FALSE]]

(* ------------------------------- state -------------------------------- *)

VARIABLES
    source,               \* what GET /emailCampaigns returns: the campaigns, in order
    db,                   \* the destination table: its rows, in creation order
    auth,                 \* the request form the destination accepts
    run,                  \* 1 in the first run of the script, 2 in the run after it
    pc,                   \* position of the run in sync_brevo_to_nocodb
    outcome,              \* how the run ended, "running" until then
    exit_code,            \* the process exit status, -1 until the run ends
    table_url,            \* NocODBClient.table_url
    existing_campaigns,   \* the dict get_existing_campaigns_dict returned
    list_ok,              \* whether the listing answered 200
    new_campaigns,        \* toInsert
    campaigns_to_update,  \* toUpdate: (campaign_id, campaign) pairs
    new_records,          \* the transformed inserts
    updates,              \* the transformed updates: (row Id, record) pairs
    k,                    \* next entry of the apply schedule
    requests,             \* the requests this run sent to the destination
    step_responses,       \* the answers to the requests of the last step
    write_failed,         \* whether a planned write of this run failed
    prev_applied,         \* whether the previous run completed with every write applied
    map_in,               \* statuses handed to the status mappers
    sync_out,             \* labels returned by the sync script's mapper
    csv_out,              \* labels returned by the CSV exporter's mapper
    tr_campaign,          \* the campaign handed to transform_campaign_data
    tr_result             \* what that call did

vars ==
    <<source, db, auth, run, pc, outcome, exit_code, table_url, existing_campaigns,
      list_ok, new_campaigns, campaigns_to_update, new_records, updates, k, requests,
      step_responses, write_failed, prev_applied, map_in, sync_out, csv_out,
      tr_campaign, tr_result>>

mapper_vars == <<map_in, sync_out, csv_out>>

transform_vars == <<tr_campaign, tr_result>>

input_vars == <<source, auth>>

plan_vars == <<existing_campaigns, list_ok, new_campaigns, campaigns_to_update>>

\* A run that has not started: the locals of sync_brevo_to_nocodb are unset.
FreshRun ==
    /\ pc = "fetch"
    /\ outcome = "running"
    /\ exit_code = -1
    /\ table_url = RecordsUrl
    /\ existing_campaigns = EmptyDict
    /\ list_ok = FALSE
    /\ new_campaigns = <<>>
    /\ campaigns_to_update = <<>>
    /\ new_records = <<>>
    /\ updates = <<>>
    /\ k = 1
    /\ requests = <<>>
    /\ step_responses = <<>>
    /\ write_failed = FALSE

\* The same, of the next state.
StartRun ==
    /\ pc' = "fetch"
    /\ outcome' = "running"
    /\ exit_code' = -1
    /\ table_url' = RecordsUrl
    /\ existing_campaigns' = EmptyDict
    /\ list_ok' = FALSE
    /\ new_campaigns' = <<>>
    /\ campaigns_to_update' = <<>>
    /\ new_records' = <<>>
    /\ updates' = <<>>
    /\ k' = 1
    /\ requests' = <<>>
    /\ step_responses' = <<>>
    /\ write_failed' = FALSE

Init ==
    /\ \E in \in Inputs : source = in[1] /\ db = in[2]
    /\ auth \in {"bearer", "query", "none"}
    /\ run = 1
    /\ prev_applied = FALSE
    /\ FreshRun
    /\ map_in = <<>> /\ sync_out = <<>> /\ csv_out = <<>>
    /\ tr_campaign = NoCampaign /\ tr_result = NoResult

(* ---------------------------- environment ----------------------------- *)

Request(method, url, bearer, record, retry) ==
    [method |-> method, url |-> url, bearer |-> bearer, record |-> record, retry |-> retry]

NoRecord == [id_campagna |-> "", stato |-> "", fields |-> {}]

\* The destination authenticates a request by its bearer header or by the
\* token in the query parameter nc.
Authenticated(req) ==
    \/ req.bearer /\ auth = "bearer"
    \/ auth = "query" /\ HasParam(req.url, "nc") /\ ParamValue(req.url, "nc") = <<ApiKey>>

\* The answers the destination can give: never 200 to a request it cannot
\* authenticate, never 401 to one it can.
Responses(req) == IF Authenticated(req) THEN Statuses \ {"401"} ELSE Statuses \ {"200"}

\* The row a PATCH creates or changes in the table.
RowOf(Id, record) == [Id |-> Id, id_campagna |-> record.id_campagna, stato |-> record.stato]

AfterPost(table, record) == Append(table, RowOf(Len(table) + 1, record))

\* The rows a request's path addresses: .../records/<Id>
AddressedRows(table, url) ==
    {n \in DOMAIN table : PathOf(url) = RecordsUrl \o <<"/", PyStr(table[n].Id)>>}

AfterPatch(table, url, record) ==
    [n \in DOMAIN table |->
        IF n \in AddressedRows(table, url) THEN RowOf(table[n].Id, record) ELSE table[n]]

(* ------------------------------ actions ------------------------------- *)

Ended(how, code) ==
    /\ pc' = "done"
    /\ outcome' = how
    /\ exit_code' = code

\* brevo.get_email_campaigns(): raise_for_status raises on an HTTP error, and
\* a network error is an exception too; both reach "except Exception" and
\* exit(1).  An empty list ends the run.
FetchCampaigns ==
    /\ pc = "fetch"
    /\ \E st \in BrevoStatuses :
         /\ step_responses' = <<st>>
         /\ IF FetchRaises(st) THEN Ended("source_fetch_failed", 1)
            ELSE IF source = <<>> THEN Ended("no_campaigns", 0)
            ELSE pc' = "verify" /\ UNCHANGED <<outcome, exit_code>>
    /\ UNCHANGED <<input_vars, db, run, table_url, plan_vars, new_records, updates, k,
                   requests, write_failed, prev_applied, mapper_vars, transform_vars>>

\* nocodb.verify_table(), then "if not ...: exit(1)".
VerifyTable ==
    /\ pc = "verify"
    /\ LET head == Request("GET", table_url, TRUE, NoRecord, FALSE)
           query == Request("GET", UrlWithToken(table_url), FALSE, NoRecord, FALSE)
       IN  \E hs \in Responses(head), qs \in Responses(query) :
             /\ hs /= "401" => qs = "neterr"
             /\ requests' = IF hs = "401" THEN <<head, query>> ELSE <<head>>
             /\ step_responses' = IF hs = "401" THEN <<hs, qs>> ELSE <<hs>>
             /\ table_url' = IF hs = "401" /\ qs = "200"
                             THEN UrlWithToken(table_url) ELSE table_url
             /\ IF VerifyResult(hs, qs)
                THEN pc' = "list" /\ UNCHANGED <<outcome, exit_code>>
                ELSE Ended("table_inaccessible", 1)
    /\ UNCHANGED <<input_vars, db, run, plan_vars, new_records, updates, k,
                   write_failed, prev_applied, mapper_vars, transform_vars>>

\* nocodb.get_existing_campaigns_dict()
GetExisting ==
    /\ pc = "list"
    /\ LET req == Request("GET", ListUrl(table_url), TRUE, NoRecord, FALSE)
       IN  \E st \in Responses(req) :
             /\ requests' = Append(requests, req)
             /\ step_responses' = <<st>>
             /\ list_ok' = (st = "200")
             /\ existing_campaigns' =
                    IF st = "200" THEN IndexByCampaign(ListedRows(db)) ELSE EmptyDict
    /\ pc' = "plan"
    /\ UNCHANGED <<input_vars, db, run, outcome, exit_code, table_url, new_campaigns,
                   campaigns_to_update, new_records, updates, k, write_failed,
                   prev_applied, mapper_vars, transform_vars>>

\* The planning loop and the "nothing to do" return.
Plan ==
    /\ pc = "plan"
    /\ new_campaigns' = PlanNew(source, existing_campaigns)
    /\ campaigns_to_update' = PlanUpdate(source, existing_campaigns)
    /\ IF NothingToDo(new_campaigns', campaigns_to_update')
       THEN Ended("nothing_to_do", 0)
       ELSE pc' = "transform" /\ UNCHANGED <<outcome, exit_code>>
    /\ UNCHANGED <<input_vars, db, run, table_url, existing_campaigns, list_ok,
                   new_records, updates, k, requests, step_responses, write_failed,
                   prev_applied, mapper_vars, transform_vars>>

\* The two comprehensions over transform_campaign_data; an exception raised
\* by it reaches "except Exception" and exit(1).
Transform ==
    /\ pc = "transform"
    /\ IF \/ \E n \in DOMAIN new_campaigns : TransformRaises(new_campaigns[n])
          \/ \E n \in DOMAIN campaigns_to_update : TransformRaises(campaigns_to_update[n][2])
       THEN /\ Ended("transform_failed", 1)
            /\ UNCHANGED <<new_records, updates>>
       ELSE /\ new_records' = NewRecords(new_campaigns)
            /\ updates' = Updates(campaigns_to_update, existing_campaigns)
            /\ pc' = "apply"
            /\ UNCHANGED <<outcome, exit_code>>
    /\ UNCHANGED <<input_vars, db, run, table_url, plan_vars, k, requests,
                   step_responses, write_failed, prev_applied, mapper_vars, transform_vars>>

\* After a failed write: the next record, or the end of the run.
AfterWrite(failed) ==
    IF failed /\ OnWriteFailure = "abort"
    THEN Ended("write_failed", 1) /\ UNCHANGED k
    ELSE k' = k + 1 /\ UNCHANGED <<pc, outcome, exit_code>>

\* One iteration of the loop of insert_records.
InsertRecord ==
    /\ pc = "apply"
    /\ k <= Len(ApplySchedule(new_records, updates))
    /\ ApplySchedule(new_records, updates)[k].op = "insert"
    /\ LET record == ApplySchedule(new_records, updates)[k].record
           first == Request("POST", table_url, TRUE, record, FALSE)
           second == Request("POST", table_url, TRUE, simplified_record(record), TRUE)
       IN  \E st1 \in Responses(first), st2 \in Responses(second) :
             /\ ~ShouldRetry(st1) => st2 = "neterr"
             /\ step_responses' = IF ShouldRetry(st1) THEN <<st1, st2>> ELSE <<st1>>
             /\ requests' = requests \o
                    (IF ShouldRetry(st1) THEN <<first, second>> ELSE <<first>>)
             /\ db' = IF IsSuccess(st1) THEN AfterPost(db, record)
                      ELSE IF ShouldRetry(st1) /\ IsSuccess(st2)
                           THEN AfterPost(db, simplified_record(record))
                           ELSE db
             /\ write_failed' = (write_failed \/ db' = db)
             /\ AfterWrite(db' = db)
    /\ UNCHANGED <<input_vars, run, table_url, plan_vars, new_records, updates,
                   prev_applied, mapper_vars, transform_vars>>

\* One iteration of the update loop of sync_records: update_record.
UpdateRecord ==
    /\ pc = "apply"
    /\ k <= Len(ApplySchedule(new_records, updates))
    /\ ApplySchedule(new_records, updates)[k].op = "update"
    /\ LET entry == ApplySchedule(new_records, updates)[k]
           req == Request("PATCH", UpdateUrl(table_url, entry.record_id), TRUE,
                          entry.record, FALSE)
       IN  \E st \in Responses(req) :
             /\ step_responses' = <<st>>
             /\ requests' = Append(requests, req)
             /\ db' = IF IsSuccess(st) THEN AfterPatch(db, req.url, entry.record) ELSE db
             /\ write_failed' = (write_failed \/ ~IsSuccess(st))
             /\ AfterWrite(~IsSuccess(st))
    /\ UNCHANGED <<input_vars, run, table_url, plan_vars, new_records, updates,
                   prev_applied, mapper_vars, transform_vars>>

\* sync_records returned: the success report.
Finish ==
    /\ pc = "apply"
    /\ k > Len(ApplySchedule(new_records, updates))
    /\ Ended("success", 0)
    /\ UNCHANGED <<input_vars, db, run, table_url, plan_vars, new_records, updates, k,
                   requests, step_responses, write_failed, prev_applied, mapper_vars, transform_vars>>

\* The script is started again; the source reports the same campaigns.
NextRun ==
    /\ pc = "done"
    /\ run = 1
    /\ run' = 2
    /\ prev_applied' = (exit_code = 0 /\ ~write_failed)
    /\ StartRun
    /\ UNCHANGED <<input_vars, db, mapper_vars, transform_vars>>

Next ==
    \/ FetchCampaigns
    \/ VerifyTable
    \/ GetExisting
    \/ Plan
    \/ Transform
    \/ InsertRecord
    \/ UpdateRecord
    \/ Finish
    \/ NextRun

Spec == Init /\ [][Next]_vars

(* ------------------------- the status mappers ------------------------- *)

\* The statuses of the documented table, a status outside it that the source
\* API reports, and a string that is no source status at all.
MapStatuses ==
    {"draft", "scheduled", "queued", "sending", "sent", "paused", "failed",
     "inProcess", "archive", "suspended", "unknown", "Sent"}

MapInputs == UNION {[1..n -> MapStatuses] : n \in 1..MaxMapLen}

InitMap ==
    /\ map_in \in MapInputs
    /\ sync_out = <<>> /\ csv_out = <<>>
    /\ tr_campaign = NoCampaign /\ tr_result = NoResult
    /\ source = <<>> /\ db = <<>> /\ auth = "bearer"
    /\ run = 1
    /\ prev_applied = FALSE
    /\ FreshRun

\* 'stato': map_brevo_status(campaign.get('status', 'unknown')) in the
\* transform of the sync script, for the next campaign.
SyncMapsStatus ==
    /\ Len(sync_out) < Len(map_in)
    /\ sync_out' = Append(sync_out, map_brevo_status(map_in[Len(sync_out) + 1]))
    /\ UNCHANGED <<source, db, auth, run, pc, outcome, exit_code, table_url,
                   existing_campaigns, list_ok, new_campaigns, campaigns_to_update,
                   new_records, updates, k, requests, step_responses, write_failed,
                   prev_applied, map_in, csv_out, transform_vars>>

\* 'stato': map_brevo_status(campaign.get('status', '')) in the row loop of
\* generate_csv, for the next campaign.
CsvMapsStatus ==
    /\ Len(csv_out) < Len(map_in)
    /\ csv_out' = Append(csv_out, csv_map_brevo_status(map_in[Len(csv_out) + 1]))
    /\ UNCHANGED <<source, db, auth, run, pc, outcome, exit_code, table_url,
                   existing_campaigns, list_ok, new_campaigns, campaigns_to_update,
                   new_records, updates, k, requests, step_responses, write_failed,
                   prev_applied, map_in, sync_out, transform_vars>>

NextMap ==
    \/ SyncMapsStatus
    \/ CsvMapsStatus

SpecMap == InitMap /\ [][NextMap]_vars

(* --------------------------- the transform ---------------------------- *)

InitTransform ==
    /\ tr_campaign \in TransformInputs
    /\ tr_result = NoResult
    /\ map_in = <<>> /\ sync_out = <<>> /\ csv_out = <<>>
    /\ source = <<>> /\ db = <<>> /\ auth = "bearer"
    /\ run = 1
    /\ prev_applied = FALSE
    /\ FreshRun

\* transform_campaign_data(campaign) is called.
TransformCampaign ==
    /\ ~tr_result.done
    /\ tr_result' = TransformResult(tr_campaign)
    /\ UNCHANGED <<source, db, auth, run, pc, outcome, exit_code, table_url,
                   existing_campaigns, list_ok, new_campaigns, campaigns_to_update,
                   new_records, updates, k, requests, step_responses, write_failed,
                   prev_applied, mapper_vars, tr_campaign>>

NextTransform == TransformCampaign

SpecTransform == InitTransform /\ [][NextTransform]_vars

(* ============================== claims ================================ *)

\* The planning loop of the current run has run.
Planned ==
    \/ pc \in {"transform", "apply"}
    \/ pc = "done" /\ outcome \in {"nothing_to_do", "transform_failed", "success", "write_failed"}

InInsert(campaign) == \E m \in DOMAIN new_campaigns : new_campaigns[m] = campaign

InUpdate(campaign) ==
    \E m \in DOMAIN campaigns_to_update :
        campaigns_to_update[m] = <<PyStr(campaign.id), campaign>>

IsWrite(req) == req.method \in {"POST", "PATCH"}

NoWrites == \A n \in DOMAIN requests : ~IsWrite(requests[n])

\* C1: once the plan is made, a source campaign is in toInsert iff its
\* stringified id is not a key of the existing-record mapping, in toUpdate iff
\* it is a key and the raw status is not exactly "sent", in neither iff it is a
\* key and the status is "sent"; no campaign is in both, and none is listed twice.
C1_Classification ==
    Planned =>
        /\ \A n \in DOMAIN source :
             LET c == source[n]
                 present == PyStr(c.id) \in DOMAIN existing_campaigns
             IN  /\ InInsert(c) <=> ~present
                 /\ InUpdate(c) <=> (present /\ c.status /= "sent")
                 /\ (~InInsert(c) /\ ~InUpdate(c)) <=> (present /\ c.status = "sent")
                 /\ ~(InInsert(c) /\ InUpdate(c))
        /\ Len(new_campaigns) + Len(campaigns_to_update)
             = Cardinality({n \in DOMAIN source : InInsert(source[n]) \/ InUpdate(source[n])})
        /\ \A m \in DOMAIN new_campaigns : new_campaigns[m] \in Range(source)
        /\ \A m \in DOMAIN campaigns_to_update : campaigns_to_update[m][2] \in Range(source)

\* C1 witness: a plan with an insert and an update, made from a listing that
\* answered.
C1_Witness ==
    /\ Planned /\ list_ok
    /\ new_campaigns /= <<>>
    /\ campaigns_to_update /= <<>>

IdsOf(campaigns) == [n \in DOMAIN campaigns |-> campaigns[n].id]

UpdateIdsOf(pairs) == [n \in DOMAIN pairs |-> pairs[n][2].id]

\* The plan was made for the mixed-state scenario: the listing answered with
\* the two stored rows and the source reports 1 and 2 as sent plus a new 3.
MixedPlanned ==
    /\ Planned /\ list_ok
    /\ source \in MixedSources
    /\ existing_campaigns = IndexByCampaign(MixedDb)

\* C2: in the mixed-state scenario the plan is toInsert = [3] and
\* toUpdate = [1]: campaign 1, stored as Scheduled and now reported as sent,
\* is still updated, and campaign 2 is skipped.
C2_MixedScenario ==
    MixedPlanned =>
        /\ IdsOf(new_campaigns) = <<3>>
        /\ UpdateIdsOf(campaigns_to_update) = <<1>>

\* C2, amended: in the mixed-state scenario the plan is toInsert = [3] and
\* toUpdate = []: campaigns 1 and 2 are both skipped, because the source
\* reports them as sent, whatever status the destination stores for them.
C2_MixedScenarioAmended ==
    MixedPlanned =>
        /\ IdsOf(new_campaigns) = <<3>>
        /\ campaigns_to_update = <<>>

\* C2 witness: the run of the mixed-state scenario completed with its one
\* insert applied, and the row of campaign 1 still says Scheduled.
C2_Witness ==
    /\ MixedPlanned
    /\ run = 1
    /\ outcome = "success" /\ ~write_failed
    /\ Len(db) = 3
    /\ db[1].id_campagna = "1" /\ db[1].stato = "Scheduled"

AllSent == \A n \in DOMAIN source : source[n].status = "sent"

\* C3: in a run that follows a run which completed with every write applied,
\* on the same source list and with a listing that answered, toInsert is
\* empty, and toUpdate is empty too when every source campaign is "sent".
C3_Idempotence ==
    (run > 1 /\ prev_applied /\ list_ok /\ Planned) =>
        /\ new_campaigns = <<>>
        /\ AllSent => campaigns_to_update = <<>>

\* C3 witness: the second run found nothing to do after a first run that
\* inserted (the table is longer than any table a behaviour starts with).
C3_Witness ==
    /\ run > 1 /\ prev_applied /\ list_ok /\ Planned
    /\ AllSent
    /\ Len(db) > MaxRows

\* C4: when the plan has both sets empty the run is over with the "nothing
\* to do" report and exit code 0, and no POST or PATCH was sent.
C4_NothingToDo ==
    (Planned /\ new_campaigns = <<>> /\ campaigns_to_update = <<>>) =>
        /\ pc = "done"
        /\ outcome = "nothing_to_do"
        /\ exit_code = 0
        /\ NoWrites

\* C4 witness: every source campaign is already stored and sent.
C4_Witness ==
    /\ Planned /\ list_ok
    /\ source /= <<>>
    /\ new_campaigns = <<>> /\ campaigns_to_update = <<>>
    /\ pc = "done"

IsPrefix(a, b) == Len(a) <= Len(b) /\ SubSeq(b, 1, Len(a)) = a

\* The first POST of each insert, the fallback POSTs, the PATCHes: in the
\* order they were sent.
FirstPosts == SelectSeq(requests, LAMBDA r : r.method = "POST" /\ ~r.retry)

RetryPosts == SelectSeq(requests, LAMBDA r : r.method = "POST" /\ r.retry)

Patches == SelectSeq(requests, LAMBDA r : r.method = "PATCH")

KeysOf(reqs) == [n \in DOMAIN reqs |-> reqs[n].record.id_campagna]

\* The source campaigns that are absent from the mapping, and those that are
\* present and not "sent": as keys, in the order the source returned them.
SourceKeysToInsert ==
    LET sel == SelectSeq(source, LAMBDA c : PyStr(c.id) \notin DOMAIN existing_campaigns)
    IN  [n \in DOMAIN sel |-> PyStr(sel[n].id)]

SourceKeysToUpdate ==
    LET sel == SelectSeq(source, LAMBDA c : /\ PyStr(c.id) \in DOMAIN existing_campaigns
                                            /\ c.status /= "sent")
    IN  [n \in DOMAIN sel |-> PyStr(sel[n].id)]

\* C5: no POST is sent after a PATCH; the inserts are sent in the order of
\* toInsert and the updates in the order of toUpdate, which is the order of
\* the source list; a run that ends with the success report has sent them all.
C5_ApplyOrder ==
    /\ \A a, b \in DOMAIN requests :
         (a < b /\ requests[a].method = "PATCH") => requests[b].method /= "POST"
    /\ IsPrefix(KeysOf(FirstPosts), SourceKeysToInsert)
    /\ IsPrefix(KeysOf(Patches), SourceKeysToUpdate)
    /\ outcome = "success" =>
         /\ KeysOf(FirstPosts) = SourceKeysToInsert
         /\ KeysOf(Patches) = SourceKeysToUpdate
         /\ KeysOf(FirstPosts) = [n \in DOMAIN new_campaigns |-> PyStr(new_campaigns[n].id)]
         /\ KeysOf(Patches) = [n \in DOMAIN campaigns_to_update |-> campaigns_to_update[n][1]]

\* C5 witness: a completed run that sent an insert and then an update.
C5_Witness ==
    /\ outcome = "success"
    /\ FirstPosts /= <<>>
    /\ Patches /= <<>>

\* sync_records was called: the transform produced the records of a
\* non-empty plan.
ApplyEntered == new_records /= <<>> \/ updates /= <<>>

\* C6: a run that entered the apply phase ends with the success report and
\* exit code 0 whatever the answers to its writes were, and by then every
\* record of toInsert has been posted and every record of toUpdate patched.
C6_FailureIsolation ==
    /\ (ApplyEntered /\ pc = "done") =>
         /\ outcome = "success"
         /\ exit_code = 0
         /\ Len(FirstPosts) = Len(new_campaigns)
         /\ Len(Patches) = Len(campaigns_to_update)
    /\ ApplyEntered => pc \in {"apply", "done"}

\* C6 witness: a run of at least two writes ended with the success report
\* although a write failed and the last one met a network error.
C6_Witness ==
    /\ pc = "done" /\ outcome = "success"
    /\ write_failed
    /\ Len(new_records) + Len(updates) >= 2
    /\ step_responses = <<"neterr">>

CountKey(reqs, key) == Cardinality({n \in DOMAIN reqs : reqs[n].record.id_campagna = key})

\* C7: a fallback POST is sent exactly when the first POST of that record was
\* answered 403, right after it, to the same URL, with the reduced field
\* subset of the same record; nothing else is retried: each planned insert
\* has one or two POSTs and each planned update one PATCH when the run ends,
\* and never more on the way.
C7_SingleFallbackRetry ==
    /\ (requests /= <<>> /\ IsWrite(requests[Len(requests)])) =>
         LET last == requests[Len(requests)]
         IN  /\ last.retry <=> Len(step_responses) = 2
             /\ last.method = "POST" => (last.retry <=> step_responses[1] = "403")
             /\ last.method = "PATCH" => Len(step_responses) = 1
    /\ \A n \in DOMAIN requests :
         requests[n].retry =>
             /\ n > 1
             /\ requests[n].method = "POST"
             /\ requests[n-1].method = "POST" /\ ~requests[n-1].retry
             /\ requests[n].url = requests[n-1].url
             /\ requests[n].record.fields = ReducedFields
             /\ requests[n].record.id_campagna = requests[n-1].record.id_campagna
             /\ requests[n].record.stato = requests[n-1].record.stato
    /\ \A n \in DOMAIN new_records :
         /\ CountKey(FirstPosts, new_records[n].id_campagna) <= 1
         /\ CountKey(RetryPosts, new_records[n].id_campagna) <= 1
         /\ CountKey(Patches, new_records[n].id_campagna) = 0
         /\ outcome = "success" => CountKey(FirstPosts, new_records[n].id_campagna) = 1
    /\ \A n \in DOMAIN updates :
         /\ CountKey(Patches, updates[n][2].id_campagna) <= 1
         /\ CountKey(FirstPosts, updates[n][2].id_campagna) = 0
         /\ CountKey(RetryPosts, updates[n][2].id_campagna) = 0
         /\ outcome = "success" => CountKey(Patches, updates[n][2].id_campagna) = 1
    /\ Len(FirstPosts) <= Len(new_records)
    /\ Len(Patches) <= Len(updates)

\* C7 witness: a completed run in which an insert was answered 403 and
\* retried, and whose last write, an update, failed and was not retried.
C7_Witness ==
    /\ outcome = "success"
    /\ RetryPosts /= <<>>
    /\ Patches /= <<>>
    /\ step_responses = <<"500">>

\* The last request sent is one of the two probes of verify_table.
JustVerified ==
    /\ requests /= <<>>
    /\ requests[Len(requests)].method = "GET"
    /\ requests[Len(requests)].url \in {RecordsUrl, UrlWithToken(RecordsUrl)}

\* The table answered 200 to the bearer probe, or 401 to it and 200 to the
\* query-parameter probe.
ProbeAccepted ==
    \/ step_responses[1] = "200"
    \/ Len(step_responses) = 2 /\ step_responses[1] = "401" /\ step_responses[2] = "200"

\* C8: when the source listing failed, and when the table was not reachable
\* in either request form, the run is over with exit code 1 and has sent no
\* POST and no PATCH.
C8_FatalBeforeWrites ==
    /\ (pc /= "fetch" /\ requests = <<>> /\ step_responses[1] /= "200") =>
         pc = "done" /\ exit_code = 1
    /\ (JustVerified /\ ~ProbeAccepted) =>
         pc = "done" /\ exit_code = 1 /\ NoWrites
    /\ (pc = "done" /\ outcome \in {"source_fetch_failed", "table_inaccessible"}) =>
         exit_code = 1 /\ NoWrites

\* C8 witness: the bearer probe was answered 401 and the query-parameter
\* probe was rejected too.
C8_Witness ==
    /\ JustVerified
    /\ Len(step_responses) = 2
    /\ step_responses[2] /= "200"
    /\ pc = "done"

\* The fallback was triggered: the client works on the URL with the token.
Sticky == table_url = UrlWithToken(RecordsUrl)

\* A request in the discovered working form: the records resource, or a row
\* under it for a PATCH, with the token as the value of nc.
InWorkingForm(req) ==
    /\ HasParam(req.url, "nc")
    /\ ParamValue(req.url, "nc") = <<ApiKey>>
    /\ IF req.method = "PATCH"
       THEN /\ Len(PathOf(req.url)) = 3
            /\ SubSeq(PathOf(req.url), 1, 2) = RecordsUrl \o <<"/">>
       ELSE PathOf(req.url) = RecordsUrl

\* C9: once the fallback is triggered, every later request of the run (the
\* listing, each insert, each update) is sent in the discovered working form.
C9_StickyAuth ==
    Sticky => \A n \in 3..Len(requests) : InWorkingForm(requests[n])

\* The documented table of the status mapper.
DocumentedLabel(status) ==
    CASE status = "draft" -> "Draft"
      [] status = "scheduled" -> "Scheduled"
      [] status = "queued" -> "Sending"
      [] status = "sending" -> "Sending"
      [] status = "sent" -> "Sent"
      [] status = "paused" -> "Paused"
      [] status = "failed" -> "Failed"
      [] status = "inProcess" -> "Sending"
      [] status = "archive" -> "Archived"
      [] status = "suspended" -> "Suspended"
      [] OTHER -> status

\* C10: both mappers return the documented label for every status of the
\* table and the input itself for every other string.
C10_StatusMappers ==
    /\ \A n \in DOMAIN sync_out : sync_out[n] = DocumentedLabel(map_in[n])
    /\ \A n \in DOMAIN csv_out : csv_out[n] = DocumentedLabel(map_in[n])

\* The statistics block, or its globalStats sub-block, is missing or null.
NoStatistics(campaign) ==
    \/ campaign.statistics \in {"missing", "null"}
    \/ campaign.globalStats \in {"missing", "null"}

\* C11: a call of the transform on a campaign whose statistics block, or
\* whose globalStats sub-block, is missing or null does not raise, and returns
\* num_contatti = 0 and both rates = 0.
C11_TransformTotal ==
    (tr_result.done /\ NoStatistics(tr_campaign)) =>
        /\ ~tr_result.raised
        /\ tr_result.num_contatti = 0
        /\ tr_result.tasso_apertura_pct = 0
        /\ tr_result.tasso_clic_pct = 0

\* The transform was called and returned a payload.
Transformed == tr_result.done /\ ~tr_result.raised

\* A key of the sender object that holds no text: absent or empty.
EmptyText(text) == text \in {"missing", ""}

\* The first non-empty of email, name, senderName, for an object that has one.
FirstNonEmpty(sender_field) ==
    IF ~EmptyText(sender_field.email) THEN sender_field.email
    ELSE IF ~EmptyText(sender_field.name) THEN sender_field.name
    ELSE sender_field.senderName

AllThreeEmpty(sender_field) ==
    /\ EmptyText(sender_field.email)
    /\ EmptyText(sender_field.name)
    /\ EmptyText(sender_field.senderName)

\* The object {}: no key at all.
EmptyObject(sender_field) ==
    /\ sender_field.shape = "dict"
    /\ sender_field.email = "missing"
    /\ sender_field.name = "missing"
    /\ sender_field.senderName = "missing"
    /\ ~sender_field.other

\* C12: an absent sender gives null; a plain string is used as-is; a
\* structured object gives the first non-empty of email, name, senderName; an
\* object in which all three are empty, the empty object {} included, gives
\* the string rendering of the whole object rather than null.
C12_SenderExtraction ==
    Transformed =>
        LET sender_field == tr_campaign.sender
            sender == tr_result.sender
        IN  CASE sender_field.shape = "missing" -> sender.kind = "null"
              [] sender_field.shape = "null" -> TRUE
              [] sender_field.shape = "string" ->
                    sender.kind = "text" /\ sender.value = <<sender_field.text>>
              [] sender_field.shape = "dict" ->
                    IF AllThreeEmpty(sender_field)
                    THEN /\ sender.kind = "rendering"
                         /\ sender.value = SenderRendering(sender_field)
                    ELSE /\ sender.kind = "text"
                         /\ sender.value = <<FirstNonEmpty(sender_field)>>

\* C12, amended: an absent or null sender, the empty string and the empty
\* object {} give null; a non-empty plain string is used as-is; a structured
\* object gives the first non-empty of email, name, senderName; a non-empty
\* object in which all three are empty gives the string rendering of the
\* whole object.
C12_SenderExtractionAmended ==
    Transformed =>
        LET sender_field == tr_campaign.sender
            sender == tr_result.sender
        IN  CASE sender_field.shape \in {"missing", "null"} -> sender.kind = "null"
              [] sender_field.shape = "string" ->
                    IF sender_field.text = ""
                    THEN sender.kind = "null"
                    ELSE sender.kind = "text" /\ sender.value = <<sender_field.text>>
              [] sender_field.shape = "dict" ->
                    IF EmptyObject(sender_field)
                    THEN sender.kind = "null"
                    ELSE IF AllThreeEmpty(sender_field)
                    THEN /\ sender.kind = "rendering"
                         /\ sender.value = SenderRendering(sender_field)
                    ELSE /\ sender.kind = "text"
                         /\ sender.value = <<FirstNonEmpty(sender_field)>>

\* The transform returned a payload for a campaign whose sender is {}.
C12_Witness ==
    /\ Transformed
    /\ EmptyObject(tr_campaign.sender)
    /\ tr_result.sender.kind = "null"

\* The positions of the destination rows stored under a campaign key, in
\* listing order.
RowsOfKey(key) == {n \in DOMAIN db : db[n].id_campagna = key}

\* The key of an update request is the source id of a campaign of the run.
KeyFromSource(req) ==
    \E n \in DOMAIN source : CampaignKey(source[n]) = req.record.id_campagna

\* C13: every update request is addressed by the 'Id' of a destination record
\* whose id_campagna equals the campaign's source id, and when several
\* records share that id_campagna it is the first of them in listing order:
\* the update goes to the first such row, never to a later duplicate.
C13_UpdateAddressing ==
    \A n \in DOMAIN Patches :
        LET rows == RowsOfKey(Patches[n].record.id_campagna)
        IN  /\ KeyFromSource(Patches[n])
            /\ rows /= {}
            /\ AddressedRows(db, Patches[n].url) = {Min(rows)}

\* C13, amended: every update request is addressed by the 'Id' of a
\* destination record whose id_campagna equals the campaign's source id, and
\* when several records share that id_campagna it is the last of them in
\* listing order: the update goes to the last such row, never to an earlier
\* duplicate.
C13_UpdateAddressingAmended ==
    \A n \in DOMAIN Patches :
        LET rows == RowsOfKey(Patches[n].record.id_campagna)
        IN  /\ KeyFromSource(Patches[n])
            /\ rows /= {}
            /\ AddressedRows(db, Patches[n].url) = {Max(rows)}

\* An update request was sent for a campaign that the destination holds twice.
C13_Witness ==
    \E n \in DOMAIN Patches :
        /\ Cardinality(RowsOfKey(Patches[n].record.id_campagna)) >= 2
        /\ AddressedRows(db, Patches[n].url) /= {}

====
